---- MODULE Spec2Model ----
(***************************************************************************)
(* Model of kilo.c: the terminal is put into raw mode, bytes are read one  *)
(* at a time with a bounded wait and printed, and the original terminal    *)
(* attributes are put back by an atexit handler when the process exits.    *)
(*                                                                         *)
(* A struct termios is a record of four flag words and the two control     *)
(* characters the program writes.  A flag word is the set of the positions *)
(* of its 1 bits, so that x &= ~m is x \ m and x |= m is x \cup m.  The    *)
(* flag macros have the bit positions of Linux's <termios.h>.              *)
(***************************************************************************)
EXTENDS Integers, Sequences, FiniteSets, TLC

\* ---------------------------------------------------------------- bounds
\* number of iterations of the input loop that are explored
MaxReads == 3
\* number of enableRawMode/disableRawMode calls in a call sequence
MaxCalls == 5

\* ------------------------------------------------- <termios.h> flag macros
\* c_iflag bits
BRKINT == {1}
INPCK  == {4}
ISTRIP == {5}
ICRNL  == {8}
IXON   == {10}
\* c_oflag bit (value 0x1)
OPOST  == {0}
\* c_cflag bits (value 0x30)
CS8    == {4, 5}
\* c_lflag bits
ISIG   == {0}
ICANON == {1}
ECHO   == {3}
IEXTEN == {15}

\* ------------------------------------------------------------ environment
\* a cooked terminal as a shell leaves it, and three variations of it
CookedTermios ==
    [iflag |-> ICRNL \cup IXON, oflag |-> OPOST \cup {2}, cflag |-> CS8 \cup {7},
     lflag |-> ISIG \cup ICANON \cup ECHO \cup IEXTEN, vmin |-> 1, vtime |-> 0]

StartConfigs ==
    { CookedTermios,
      [CookedTermios EXCEPT !.iflag = BRKINT \cup INPCK \cup ISTRIP \cup ICRNL \cup IXON \cup {0}],
      [CookedTermios EXCEPT !.cflag = {5, 7}, !.oflag = {}],
      [CookedTermios EXCEPT !.lflag = ISIG \cup ECHO, !.vmin = 4, !.vtime = 2] }

\* the bytes a read may deliver: ^C, DEL, 'a', 'b', 'q' and the non-ASCII 0xE9
InputBytes == {3, 127, 97, 98, 113, 233}

\* what one read(STDIN_FILENO, &c, 1) can return: one byte, no byte, or -1
ReadResults ==
    { [ret |-> 1, byte |-> b, errno |-> "none"] : b \in InputBytes }
    \cup { [ret |-> 0, byte |-> 0, errno |-> "none"] }
    \cup { [ret |-> -1, byte |-> 0, errno |-> e] : e \in {"EAGAIN", "EINTR", "EIO"} }

\* exit() called while exit() is running is undefined: a libc either goes on
\* with the handlers that are left, or traps and the process dies by a signal
RecursiveExitOutcomes == {"continue", "trap"}

VARIABLES
    dev,            \* the terminal device's current attributes
    start_termios,  \* the attributes the device had when the process started
    orig_termios,   \* the global struct termios orig_termios
    handlers,       \* functions registered with atexit, in registration order
    pc,             \* "main", "loop", "exit", "done"; "api" in call sequences
    exit_code,      \* argument of the exit() in progress / the exit status
    killed,         \* the process was ended by a trap, not by exit
    out,            \* lines written to standard output
    err,            \* strings handed to perror
    reads,          \* results of the reads issued so far, in order
    char_signed,    \* whether plain char is signed in this build
    got_attr,       \* tcgetattr in enableRawMode has returned success
    raw_applied,    \* tcsetattr(&raw) in enableRawMode has returned success
    restore_calls,  \* number of invocations of disableRawMode
    restore_ok,     \* outcomes of the tcsetattr in disableRawMode, in order
    reads_at_restore, \* number of reads issued when disableRawMode first ran
    callLog         \* call sequences: the calls made so far

vars == <<dev, start_termios, orig_termios, handlers, pc, exit_code, killed, out,
          err, reads, char_signed, got_attr, raw_applied, restore_calls,
          restore_ok, reads_at_restore, callLog>>

\* a static struct termios is zero-initialised
ZeroTermios ==
    [iflag |-> {}, oflag |-> {}, cflag |-> {}, lflag |-> {}, vmin |-> 0, vtime |-> 0]

\* -------------------------------------------------------------- terminal
\* raw = orig_termios with the flag edits of enableRawMode
MakeRaw(t) ==
    [t EXCEPT
       !.iflag = ((t.iflag \ (BRKINT \cup ICRNL \cup INPCK \cup ISTRIP \cup IXON)) \ OPOST) \cup CS8,
       !.lflag = t.lflag \ (ECHO \cup ICANON \cup IEXTEN \cup ISIG),
       !.vmin = 0,
       !.vtime = 1]

\* atexit(f): f is appended to the registered functions
atexit(h, f) == Append(h, f)

\* mutants of RegisteredAfterQuery: the registration left out, made twice,
\* and made before the query
RegisteredNever(h, got) == h
RegisteredTwice(h, got) ==
    IF got THEN atexit(atexit(h, "disableRawMode"), "disableRawMode") ELSE h
RegisteredBeforeQuery(h, got) == atexit(h, "disableRawMode")

\* the registered functions when enableRawMode is past line 50: the
\* registration is reached only when tcgetattr did not fail
RegisteredAfterQuery(h, got) == IF got THEN atexit(h, "disableRawMode") ELSE h

\* mutants of enableRawMode: the result of the raw tcsetattr is not tested;
\* the flag edits are made in orig_termios itself, not in a copy
enableRawModeUnchecked(d, o, h, got, applied) ==
    LET snap == IF got THEN d ELSE o
    IN  [dev      |-> IF got /\ applied THEN MakeRaw(snap) ELSE d,
         orig     |-> snap,
         handlers |-> RegisteredAfterQuery(h, got),
         died     |-> IF ~got THEN "tcgetattr" ELSE "no"]
enableRawModeInPlace(d, o, h, got, applied) ==
    LET snap == IF got THEN d ELSE o
    IN  [dev      |-> IF got /\ applied THEN MakeRaw(snap) ELSE d,
         orig     |-> IF got THEN MakeRaw(snap) ELSE snap,
         handlers |-> RegisteredAfterQuery(h, got),
         died     |-> IF ~got THEN "tcgetattr" ELSE IF ~applied THEN "tcsetattr" ELSE "no"]

\* enableRawMode on device d: got and applied are the outcomes of tcgetattr
\* and tcsetattr; died names the call whose failure reached die
enableRawMode(d, o, h, got, applied) ==
    LET snap == IF got THEN d ELSE o
        raw  == MakeRaw(snap)
    IN  [dev      |-> IF got /\ applied THEN raw ELSE d,
         orig     |-> snap,
         handlers |-> RegisteredAfterQuery(h, got),
         died     |-> IF ~got THEN "tcgetattr" ELSE IF ~applied THEN "tcsetattr" ELSE "no"]

\* mutant of disableRawMode: the attributes it replaces are kept in the global
disableRawModeSwapping(d, o, ok) ==
    [dev  |-> IF ok THEN o ELSE d,
     orig |-> IF ok THEN d ELSE o,
     died |-> IF ok THEN "no" ELSE "tcsetattr"]

\* disableRawMode on device d: ok is the outcome of tcsetattr
disableRawMode(d, o, ok) ==
    [dev  |-> IF ok THEN o ELSE d,
     orig |-> o,
     died |-> IF ok THEN "no" ELSE "tcsetattr"]

\* -------------------------------------------------------------- input loop
\* the value of char c after the read: c starts as '\0' in every iteration
CharAfterRead(r) == IF r.ret = 1 THEN r.byte ELSE 0

\* c as an int, the way printf("%d") and iscntrl receive it
CharValue(b, signed) == IF signed /\ b >= 128 THEN b - 256 ELSE b

\* mutants of ReadFatal: every read without a byte is fatal; every -1 is fatal
ReadFatalUnlessByte(r) == r.ret # 1
ReadFatalAnyErrno(r) == r.ret = -1

\* read(...) == -1 && errno != EAGAIN
ReadFatal(r) == r.ret = -1 /\ r.errno # "EAGAIN"

\* iscntrl in the C locale; its argument must be an unsigned char value, so
\* for a negative one the result is whatever the table lookup gives (ub)
iscntrl(v, ub) == IF v < 0 THEN ub ELSE (v < 32 \/ v = 127)

\* the printed line: <<decimal>> for "%d\r\n", <<decimal, byte>> for "%d ('%c')\r\n"
PrintedLine(b, signed, ub) ==
    IF iscntrl(CharValue(b, signed), ub)
    THEN <<CharValue(b, signed)>>
    ELSE <<CharValue(b, signed), b>>

\* mutant of IsQuit: the comparison is c <= 'q'
IsQuitOrBelow(b) == b <= 113

\* mutant of IsQuit: the comparison is with 'Q'
IsQuitUpper(b) == b = 81

\* c == 'q'
IsQuit(b) == b = 113

\* ------------------------------------------------------------------- Init
Init ==
    /\ start_termios \in StartConfigs
    /\ dev = start_termios
    /\ orig_termios = ZeroTermios
    /\ handlers = <<>>
    /\ pc = "main"
    /\ exit_code = 0
    /\ killed = FALSE
    /\ out = <<>>
    /\ err = <<>>
    /\ reads = <<>>
    /\ char_signed \in BOOLEAN
    /\ got_attr = FALSE
    /\ raw_applied = FALSE
    /\ restore_calls = 0
    /\ restore_ok = <<>>
    /\ reads_at_restore = 0
    /\ callLog = <<>>

\* ---------------------------------------------------------------- actions
\* main calls enableRawMode; a failure goes through die: perror, exit(1)
EnableRawMode ==
    /\ pc = "main"
    /\ \E got \in BOOLEAN, applied \in BOOLEAN :
         LET e == enableRawMode(dev, orig_termios, handlers, got, applied)
         IN  /\ dev' = e.dev
             /\ orig_termios' = e.orig
             /\ handlers' = e.handlers
             /\ got_attr' = got
             /\ raw_applied' = (got /\ applied)
             /\ IF e.died = "no"
                THEN /\ pc' = "loop"
                     /\ UNCHANGED <<err, exit_code>>
                ELSE /\ pc' = "exit"
                     /\ err' = Append(err, e.died)
                     /\ exit_code' = 1
    /\ UNCHANGED <<start_termios, killed, out, reads, char_signed, restore_calls,
                   restore_ok, reads_at_restore, callLog>>

\* one iteration of while(1): the read, the die on a fatal failure, the
\* printf, and the break on 'q' that returns 0 from main
ReadLoop ==
    /\ pc = "loop"
    /\ Len(reads) < MaxReads
    /\ \E r \in ReadResults, ub \in BOOLEAN :
         LET b == CharAfterRead(r)
         IN  /\ reads' = Append(reads, r)
             /\ IF ReadFatal(r)
                THEN /\ err' = Append(err, "read")
                     /\ exit_code' = 1
                     /\ pc' = "exit"
                     /\ UNCHANGED out
                ELSE /\ out' = Append(out, PrintedLine(b, char_signed, ub))
                     /\ pc' = IF IsQuit(b) THEN "exit" ELSE "loop"
                     /\ exit_code' = 0
                     /\ UNCHANGED err
    /\ UNCHANGED <<dev, start_termios, orig_termios, handlers, killed, char_signed,
                   got_attr, raw_applied, restore_calls, restore_ok,
                   reads_at_restore, callLog>>

\* exit() calls the most recently registered function that is left, here
\* disableRawMode; its failure goes through die, whose exit(1) is a second
\* call of exit
RunExitHandler ==
    /\ pc = "exit"
    /\ handlers # <<>>
    /\ \E ok \in BOOLEAN, rec \in RecursiveExitOutcomes :
         LET d == disableRawMode(dev, orig_termios, ok)
         IN  /\ handlers' = SubSeq(handlers, 1, Len(handlers) - 1)
             /\ dev' = d.dev
             /\ orig_termios' = d.orig
             /\ restore_calls' = restore_calls + 1
             /\ restore_ok' = Append(restore_ok, ok)
             /\ reads_at_restore' = IF restore_calls = 0 THEN Len(reads) ELSE reads_at_restore
             /\ IF d.died = "no"
                THEN UNCHANGED <<err, exit_code, pc, killed>>
                ELSE /\ err' = Append(err, d.died)
                     /\ IF rec = "continue"
                        THEN /\ exit_code' = 1
                             /\ UNCHANGED <<pc, killed>>
                        ELSE /\ pc' = "done"
                             /\ killed' = TRUE
                             /\ UNCHANGED exit_code
    /\ UNCHANGED <<start_termios, out, reads, char_signed, got_attr, raw_applied, callLog>>

\* no registered function is left: the process ends with the exit status
FinishExit ==
    /\ pc = "exit"
    /\ handlers = <<>>
    /\ pc' = "done"
    /\ UNCHANGED <<dev, start_termios, orig_termios, handlers, exit_code, killed, out,
                   err, reads, char_signed, got_attr, raw_applied, restore_calls,
                   restore_ok, reads_at_restore, callLog>>

Next == EnableRawMode \/ ReadLoop \/ RunExitHandler \/ FinishExit

Spec == Init /\ [][Next]_vars

\* ------------------------------------------------ call sequences of the API
\* enableRawMode and disableRawMode called in any order after a first
\* enableRawMode, every OS call succeeding
InitSeq ==
    /\ start_termios \in StartConfigs
    /\ dev = start_termios
    /\ orig_termios = ZeroTermios
    /\ handlers = <<>>
    /\ pc = "api"
    /\ exit_code = 0
    /\ killed = FALSE
    /\ out = <<>>
    /\ err = <<>>
    /\ reads = <<>>
    /\ char_signed = TRUE
    /\ got_attr = FALSE
    /\ raw_applied = FALSE
    /\ restore_calls = 0
    /\ restore_ok = <<>>
    /\ reads_at_restore = 0
    /\ callLog = <<>>

CallEnableRawMode ==
    /\ pc = "api"
    /\ Len(callLog) < MaxCalls
    /\ LET e == enableRawMode(dev, orig_termios, handlers, TRUE, TRUE)
       IN  /\ dev' = e.dev
           /\ orig_termios' = e.orig
           /\ handlers' = e.handlers
    /\ got_attr' = TRUE
    /\ raw_applied' = TRUE
    /\ callLog' = Append(callLog, "enter")
    /\ UNCHANGED <<start_termios, pc, exit_code, killed, out, err, reads, char_signed,
                   restore_calls, restore_ok, reads_at_restore>>

CallDisableRawMode ==
    /\ pc = "api"
    /\ Len(callLog) < MaxCalls
    /\ callLog # <<>>
    /\ LET d == disableRawMode(dev, orig_termios, TRUE)
       IN  /\ dev' = d.dev
           /\ orig_termios' = d.orig
    /\ restore_calls' = restore_calls + 1
    /\ restore_ok' = Append(restore_ok, TRUE)
    /\ callLog' = Append(callLog, "restore")
    /\ UNCHANGED <<start_termios, handlers, pc, exit_code, killed, out, err, reads,
                   char_signed, got_attr, raw_applied, reads_at_restore>>

NextSeq == CallEnableRawMode \/ CallDisableRawMode

SpecSeq == InitSeq /\ [][NextSeq]_vars

\* ------------------------------------------------------------------ claims
Last(s) == s[Len(s)]
ByteRead(b) == [ret |-> 1, byte |-> b, errno |-> "none"]
ZeroRead == [ret |-> 0, byte |-> 0, errno |-> "none"]
FailedRead(e) == [ret |-> -1, byte |-> 0, errno |-> e]
\* a read was issued in this step and returned r
ReadReturned(r) == pc = "loop" /\ reads' = Append(reads, r)
\* the loop has read the byte 'q'
QuitRead == reads # <<>> /\ Last(reads) = ByteRead(113)

\* C1: when the process has ended after the raw attributes were applied,
\* disableRawMode has been invoked, and if its tcsetattr succeeded the device
\* has the snapshot, which is what it had at the start, and not the raw
\* attributes.
C1_RestoredAtEnd ==
    (pc = "done" /\ raw_applied) =>
        /\ restore_calls >= 1
        /\ (Last(restore_ok) =>
              /\ dev = orig_termios
              /\ dev = start_termios
              /\ (MakeRaw(start_termios) # start_termios => dev # MakeRaw(start_termios)))

\* C1 witness: a fatal read failure in raw mode, after which the restore
\* succeeded and the process ended with the device as it started
C1_Witness ==
    /\ pc = "done"
    /\ raw_applied
    /\ err = <<"read">>
    /\ restore_ok = <<TRUE>>
    /\ dev = start_termios
    /\ dev # MakeRaw(start_termios)

\* C2 (as stated): in every complete execution disableRawMode has run exactly
\* once.
C2_ExactlyOnceAlways == pc = "done" => restore_calls = 1

\* C2 (amended): disableRawMode never runs more than once, and in a complete
\* execution it has run exactly once if tcgetattr succeeded and not at all if
\* tcgetattr failed.
C2_OnceIffQueried ==
    /\ restore_calls <= 1
    /\ pc = "done" => restore_calls = (IF got_attr THEN 1 ELSE 0)

\* C2 witness: the restore itself failed inside the exit handler, die called
\* exit again, and the process ended with one invocation of disableRawMode
C2_Witness ==
    /\ pc = "done"
    /\ got_attr
    /\ restore_ok = <<FALSE>>
    /\ restore_calls = 1
    /\ ~killed

\* C3 (as stated): disableRawMode is invoked only if the tcsetattr of the raw
\* attributes has returned success.
C3_OnlyAfterRawApplied == restore_calls > 0 => raw_applied

\* C3 (amended): disableRawMode is registered and invoked only if tcgetattr
\* has returned success, so the snapshot it applies is the captured one.
C3_OnlyAfterQuery ==
    (restore_calls > 0 \/ handlers # <<>>) =>
        (got_attr /\ orig_termios = start_termios)

\* C3 witness: the tcsetattr of the raw attributes failed and disableRawMode
\* was invoked all the same
C3_Witness ==
    /\ got_attr
    /\ ~raw_applied
    /\ restore_calls = 1
    /\ err[1] = "tcsetattr"

\* C4: in a call sequence whose OS calls all succeed, the device after a
\* disableRawMode has the attributes it had before the first enableRawMode.
C4_RestorationFidelity ==
    (pc = "api" /\ callLog # <<>> /\ Last(callLog) = "restore") => dev = start_termios

\* C5: a disableRawMode that directly follows a disableRawMode changes neither
\* the device nor the snapshot.
C5_IdempotentRestore ==
    [][(pc = "api" /\ callLog # <<>> /\ Last(callLog) = "restore"
          /\ callLog' = Append(callLog, "restore"))
       => (dev' = dev /\ orig_termios' = orig_termios)]_vars

\* C5 witness: enableRawMode, then disableRawMode twice, the device holding
\* the snapshot and no longer the raw attributes
C5_Witness ==
    /\ callLog = <<"enter", "restore", "restore">>
    /\ dev = orig_termios
    /\ dev = start_termios
    /\ dev # MakeRaw(start_termios)

\* the reads so far all delivered a byte or timed out: none returned -1
NoReadFailure == \A i \in 1..Len(reads) : reads[i].ret >= 0
\* line i of the output is a line for the byte b: its decimal is b as a char
LineFor(i, b) == i <= Len(out) /\ (out[i][1] - b) % 256 = 0

LoopFrame ==
    UNCHANGED <<dev, start_termios, orig_termios, handlers, exit_code, killed, err,
                got_attr, raw_applied, restore_calls, restore_ok>>

\* C7 (as stated): a read that returns 0 prints nothing, changes no state and
\* leaves the loop running.
C7_ZeroReadPrintsNothing ==
    [][ReadReturned(ZeroRead) => (pc' = "loop" /\ out' = out /\ LoopFrame)]_vars

\* C7 (amended): a read that returns 0 is no error: the loop prints the line
\* "0" of the char c = '\0', changes nothing else and stays running.
C7_ZeroReadPrintsZero ==
    [][ReadReturned(ZeroRead) =>
         (pc' = "loop" /\ out' = Append(out, <<0>>) /\ LoopFrame)]_vars

\* C7 witness: the last read returned 0, its line "0" is the last line, no
\* diagnostic was printed and the loop is running
C7_Witness ==
    /\ pc = "loop"
    /\ Len(reads) = 2
    /\ Last(reads) = ZeroRead
    /\ Len(out) = 2
    /\ Last(out) = <<0>>
    /\ err = <<>>

\* C8 (as stated): a read that fails with EINTR or EAGAIN prints nothing, no
\* diagnostic either, and leaves the loop running.
C8_TransientNotSurfaced ==
    [][\A e \in {"EINTR", "EAGAIN"} :
         ReadReturned(FailedRead(e)) =>
             (pc' = "loop" /\ out' = out /\ err' = err /\ LoopFrame)]_vars

\* C8 (amended): a read that fails with EAGAIN is not surfaced: no diagnostic,
\* the loop stays running, and the line "0" of c = '\0' is printed; a read
\* that fails with any other errno, EINTR included, prints nothing, hands
\* "read" to perror and calls exit(1); the loop is left with exit(1) by no
\* other read.
C8_OnlyEagainRetried ==
    [][/\ ReadReturned(FailedRead("EAGAIN")) =>
            (pc' = "loop" /\ out' = Append(out, <<0>>) /\ LoopFrame)
       /\ \A e \in {"EINTR", "EIO"} :
            ReadReturned(FailedRead(e)) =>
                (pc' = "exit" /\ exit_code' = 1 /\ err' = Append(err, "read")
                   /\ out' = out /\ UNCHANGED <<dev, orig_termios, handlers, killed>>)
       /\ (pc = "loop" /\ pc' = "exit" /\ exit_code' = 1) =>
            (Last(reads').ret = -1 /\ Last(reads').errno # "EAGAIN")]_vars

\* C8 witness: the last read failed with EAGAIN, the loop is running and no
\* diagnostic was printed
C8_Witness ==
    /\ pc = "loop"
    /\ Len(reads) = 2
    /\ Last(reads) = FailedRead("EAGAIN")
    /\ Last(out) = <<0>>
    /\ err = <<>>
    /\ ~killed

\* C9: when the process has ended, it ended by exit, with status 0 if 'q' was
\* read and no OS call failed, and with status 1 and the failing call's name
\* printed if an OS call failed.
C9_ExitCodes ==
    pc = "done" =>
        /\ ~killed
        /\ exit_code = 0 <=> (QuitRead /\ err = <<>>)
        /\ err # <<>> => (exit_code = 1 /\ \A i \in 1..Len(err) :
                                              err[i] \in {"tcgetattr", "tcsetattr", "read"})

\* a control byte of ASCII
ControlByte(b) == b < 32 \/ b = 127

\* C10: the line printed for a delivered byte has only the byte's decimal value
\* if the byte is a control byte, and the decimal value and the byte itself
\* otherwise.
C10_Classification ==
    \A i \in 1..Len(out) :
        reads[i].ret = 1 =>
            out[i] = (IF ControlByte(reads[i].byte)
                      THEN <<reads[i].byte>>
                      ELSE <<reads[i].byte, reads[i].byte>>)

\* the raw attributes are on the device: enableRawMode has returned
RawModeEntered == pc = "loop" /\ raw_applied

\* C11: the attributes enableRawMode has applied have ECHO, ICANON, ISIG and
\* IEXTEN off in the local flags, ICRNL, INPCK, ISTRIP and IXON off in the input
\* flags, OPOST off in the output flags and the character size CS8 in the
\* control flags.
C11_RawFlagsPerField ==
    RawModeEntered =>
        /\ dev.lflag \cap (ECHO \cup ICANON \cup ISIG \cup IEXTEN) = {}
        /\ dev.iflag \cap (ICRNL \cup INPCK \cup ISTRIP \cup IXON) = {}
        /\ dev.oflag \cap OPOST = {}
        /\ CS8 \subseteq dev.cflag

\* C12: when the process has ended without the raw attributes having been
\* applied (tcgetattr or the raw tcsetattr failed), it ended by exit with
\* status 1, no read was issued, and if the raw tcsetattr was the call that
\* failed, disableRawMode has been invoked.
C12_EntryFailureFatal ==
    (pc = "done" /\ ~raw_applied) =>
        /\ ~killed
        /\ exit_code = 1
        /\ reads = <<>>
        /\ got_attr => restore_calls >= 1

\* C13: when the process has ended after the tcsetattr of disableRawMode
\* failed, disableRawMode was invoked exactly once, "tcsetattr" was handed to
\* perror, and the process ended by exit with status 1.
C13_RestoreFailureFatal ==
    (pc = "done" /\ restore_ok # <<>> /\ ~Last(restore_ok)) =>
        /\ restore_calls = 1
        /\ Last(err) = "tcsetattr"
        /\ ~killed
        /\ exit_code = 1

\* C14: a read has been issued, or the loop is running, only if tcgetattr and
\* the tcsetattr of the raw attributes both returned success; the device then
\* got the raw attributes derived from the snapshot.
C14_ReadsOnlyInRawMode ==
    /\ (reads # <<>> \/ pc = "loop") => (got_attr /\ raw_applied)
    /\ pc = "loop" => dev = MakeRaw(orig_termios)

\* C14 witness: a byte has been read, both calls of enableRawMode having
\* succeeded, and the loop is running on the raw device
C14_Witness ==
    /\ pc = "loop"
    /\ reads = <<ByteRead(97)>>
    /\ got_attr
    /\ raw_applied
    /\ dev = MakeRaw(start_termios)
    /\ dev # start_termios

\* C15: orig_termios is the zeroed global until tcgetattr has succeeded, and
\* from then on it is the attributes the device had at process start, in
\* every later state: deriving raw, the loop, die and disableRawMode leave it
\* as captured.
C15_SnapshotImmutable ==
    /\ ~got_attr => orig_termios = ZeroTermios
    /\ got_attr => orig_termios = start_termios

\* C15 witness: the process went through raw mode, reads, a restore that
\* succeeded and its end, and orig_termios is still the start attributes
C15_Witness ==
    /\ pc = "done"
    /\ got_attr
    /\ raw_applied
    /\ Len(reads) >= 2
    /\ restore_ok = <<TRUE>>
    /\ orig_termios = start_termios
    /\ orig_termios # MakeRaw(start_termios)

\* a read the loop does not go on after: 'q', or a failure other than EAGAIN
StopsLoop(r) == r = ByteRead(113) \/ (r.ret = -1 /\ r.errno # "EAGAIN")
LastReadStops == reads # <<>> /\ StopsLoop(Last(reads))

ListedIflag == ICRNL \cup INPCK \cup ISTRIP \cup IXON
ListedLflag == ECHO \cup ICANON \cup ISIG \cup IEXTEN

\* C18: the attributes enableRawMode has applied equal the snapshot in every
\* flag bit outside the listed ones (ECHO, ICANON, ISIG, IEXTEN, OPOST, ICRNL,
\* INPCK, ISTRIP, IXON, the character size); only VMIN and VTIME differ among
\* the control characters.
C18_RawFrame ==
    RawModeEntered =>
        /\ dev.iflag \ ListedIflag = orig_termios.iflag \ ListedIflag
        /\ dev.lflag \ ListedLflag = orig_termios.lflag \ ListedLflag
        /\ dev.oflag \ OPOST = orig_termios.oflag \ OPOST
        /\ dev.cflag \ CS8 = orig_termios.cflag \ CS8

\* C19: when tcgetattr has failed, no read is issued and disableRawMode is
\* neither registered nor invoked, the device keeps its start attributes, the
\* only diagnostic is "tcgetattr", and the process ends by exit with status 1.
C19_QueryFailure ==
    (pc # "main" /\ ~got_attr) =>
        /\ pc \in {"exit", "done"}
        /\ handlers = <<>>
        /\ restore_calls = 0
        /\ ~raw_applied
        /\ reads = <<>>
        /\ dev = start_termios
        /\ err = <<"tcgetattr">>
        /\ exit_code = 1
        /\ ~killed

\* C19 witness: the process has ended after a failed tcgetattr
C19_Witness ==
    /\ pc = "done"
    /\ ~got_attr
    /\ err = <<"tcgetattr">>
    /\ exit_code = 1
    /\ dev = start_termios
    /\ restore_calls = 0

====
